---- MODULE Spec2Model ----
(***************************************************************************)
(* A model of the TSrepr representation kernels: rleC (src/rle.cpp),       *)
(* repr_sma and the fast statistics (src/helpers.cpp), clipping, trending, *)
(* repr_feaclip, repr_featrend, repr_paa and repr_seas_profile             *)
(* (src/representations.cpp).                                              *)
(*                                                                         *)
(* Every kernel is a pure function of its arguments, so the state machine  *)
(* is: an input vector x is given, one exported function is called on it,  *)
(* and the call's result is recorded.  Vectors are 1-based sequences here; *)
(* the comments give the 0-based C++ index where the two differ.           *)
(*                                                                         *)
(* A double is modelled as a normalised fraction <<num, den>>.  Every      *)
(* arithmetic operation of the code rounds its exact result to the nearest *)
(* value with prec significant bits (ties to even); prec = 0 stands for    *)
(* unrounded arithmetic, the one the "exact arithmetic" statements of the  *)
(* documentation are about.  Exponent range and infinities are not        *)
(* modelled; the one NaN is the 0.0 / 0 of meanC on an empty vector.       *)
(***************************************************************************)
EXTENDS Integers, Sequences, FiniteSets, TLC

VARIABLES pc, prec, x, call, ret

vars == <<pc, prec, x, call, ret>>

\* ---------------------------------------------------------------- bounds
MaxLen == 5        \* longest input vector
MaxVal == 2        \* input samples are the integers 0..MaxVal
Precision == 2     \* significand bits of the rounded arithmetic
MaxPieces == 2     \* largest "pieces" argument of repr_featrend
MaxOrder == 2      \* largest "order" argument
MaxQ == 3          \* largest "q" argument of repr_paa
MaxFreq == 3       \* largest "freq" argument of repr_seas_profile

\* ------------------------------------------------------------ arithmetic
Abs(a) == IF a < 0 THEN -a ELSE a

RECURSIVE GCD(_, _)
GCD(a, b) == IF b = 0 THEN a ELSE GCD(b, a % b)

RECURSIVE Pow2(_)
Pow2(k) == IF k = 0 THEN 1 ELSE 2 * Pow2(k - 1)

\* the fraction n/d in lowest terms with a positive denominator
Q(n, d) ==
  LET g == GCD(Abs(n), Abs(d))
      s == IF d < 0 THEN -1 ELSE 1
  IN  <<(s * n) \div g, (s * d) \div g>>

D(v) == <<v, 1>>                    \* an int converted to double

QAdd(a, b) == Q(a[1] * b[2] + b[1] * a[2], a[2] * b[2])
QSub(a, b) == Q(a[1] * b[2] - b[1] * a[2], a[2] * b[2])
QDiv(a, b) == Q(a[1] * b[2], a[2] * b[1])
QLess(a, b) == a[1] * b[2] < b[1] * a[2]
QLeq(a, b) == a[1] * b[2] <= b[1] * a[2]

\* round n/d > 0 to p significant bits: scale the fraction into
\* [2^(p-1), 2^p), round the integer part to nearest (ties to even),
\* scale back by up/down
RECURSIVE RoundPos(_, _, _, _, _)
RoundPos(n, d, up, down, p) ==
  IF n < Pow2(p - 1) * d THEN RoundPos(2 * n, d, up, 2 * down, p)
  ELSE IF n >= Pow2(p) * d THEN RoundPos(n, 2 * d, 2 * up, down, p)
  ELSE LET m == n \div d
           r == n - m * d
           mm == IF 2 * r > d \/ (2 * r = d /\ m % 2 = 1) THEN m + 1 ELSE m
       IN  Q(mm * up, down)

RoundTo(q, p) ==
  IF q[1] = 0 \/ p = 0 THEN q
  ELSE IF q[1] > 0 THEN RoundPos(q[1], q[2], 1, 1, p)
  ELSE LET r == RoundPos(-q[1], q[2], 1, 1, p) IN <<-r[1], r[2]>>

\* the result of one double operation
fl(q) == RoundTo(q, prec)

dadd(a, b) == fl(QAdd(a, b))
dsub(a, b) == fl(QSub(a, b))
ddiv(a, b) == fl(QDiv(a, b))

\* NumericVector built from a vector of ints
AsNumeric(v) == [i \in 1..Len(v) |-> D(v[i])]

\* ------------------------------------------------- helpers.cpp: fast_stat
\* left-to-right scan keeping the first largest / smallest element
RECURSIVE maxScan(_, _, _)
maxScan(v, i, best) ==
  IF i > Len(v) THEN best
  ELSE maxScan(v, i + 1, IF QLess(best, v[i]) THEN v[i] ELSE best)

maxC(v) == maxScan(v, 2, v[1])

RECURSIVE minScan(_, _, _)
minScan(v, i, best) ==
  IF i > Len(v) THEN best
  ELSE minScan(v, i + 1, IF QLess(v[i], best) THEN v[i] ELSE best)

minC(v) == minScan(v, 2, v[1])

\* total = 0; for i: total += v[i]   (also std::accumulate(.., 0.0))
RECURSIVE accumulate(_, _, _)
accumulate(v, i, total) ==
  IF i > Len(v) THEN total ELSE accumulate(v, i + 1, dadd(total, v[i]))

sumC(v) == accumulate(v, 1, D(0))

meanC(v) == ddiv(accumulate(v, 1, D(0)), D(Len(v)))

\* what std::nth_element leaves at 0-based position k: the value with at
\* most k elements below it and more than k elements not above it
nth_element(v, k) ==
  CHOOSE e \in {v[i] : i \in 1..Len(v)} :
    /\ Cardinality({i \in 1..Len(v) : QLess(v[i], e)}) <= k
    /\ Cardinality({i \in 1..Len(v) : QLeq(v[i], e)}) > k

medianC(v) ==
  LET n == Len(v)
      half == n \div 2
  IN  IF n % 2 = 1 THEN nth_element(v, half)
      ELSE ddiv(dadd(nth_element(v, half), nth_element(v, half - 1)), D(2))

\* the aggregation functions a caller can pass as "func"
Funcs == {"maxC", "minC", "meanC", "sumC", "medianC"}

NaN == <<0, 0>>                     \* 0.0 / 0

\* func(v).  On an empty vector sumC returns its initial total, meanC
\* divides 0.0 by 0, and maxC, minC and medianC dereference end().
ApplyFaults(func, v, garbage) ==
  Len(v) = 0 /\ func \in {"maxC", "minC", "medianC"} /\ garbage = "crash"

Apply(func, v, garbage) ==
  IF Len(v) = 0
  THEN CASE func = "sumC" -> D(0)
         [] func = "meanC" -> NaN
         [] OTHER -> IF garbage = "zero" THEN D(0) ELSE D(1)
  ELSE CASE func = "maxC" -> maxC(v)
         [] func = "minC" -> minC(v)
         [] func = "meanC" -> meanC(v)
         [] func = "sumC" -> sumC(v)
         [] func = "medianC" -> medianC(v)

\* ------------------------------------------------- helpers.cpp: repr_sma
\* the second loop, i its 0-based index:
\* repr[i] = repr[i-1] + (x[i+order]/order) - (x[i-1]/order)
RECURSIVE smaLoop(_, _, _, _)
smaLoop(v, order, i, repr) ==
  IF i >= Len(v) - order THEN repr
  ELSE smaLoop(v, order, i + 1,
               Append(repr, dsub(dadd(repr[i], ddiv(v[i + order + 1], D(order))),
                                 ddiv(v[i], D(order)))))

\* requires 1 <= order < Len(v); the code itself checks nothing
repr_sma(v, order) ==
  LET sum == accumulate(SubSeq(v, 1, order), 1, D(0))
  IN  smaLoop(v, order, 1, <<ddiv(sum, D(order))>>)

\* ------------------------------------------------------ rle.cpp: rleC
\* rleLoop with a slip: a new run does not update prev
RECURSIVE rleLoop_stalePrev(_, _, _, _, _, _)
rleLoop_stalePrev(v, it, i, prev, values, lengths) ==
  IF it > Len(v) THEN [lengths |-> lengths, values |-> values]
  ELSE IF prev = v[it]
       THEN rleLoop_stalePrev(v, it + 1, i, prev, values,
                              [lengths EXCEPT ![i + 1] = @ + 1])
       ELSE rleLoop_stalePrev(v, it + 1, i + 1, prev,
                              Append(values, v[it]), Append(lengths, 1))

\* the scan from the second element on; it is the 1-based position of the
\* iterator, i the 0-based index of the current run
RECURSIVE rleLoop(_, _, _, _, _, _)
rleLoop(v, it, i, prev, values, lengths) ==
  IF it > Len(v) THEN [lengths |-> lengths, values |-> values]
  ELSE IF prev = v[it]
       THEN rleLoop(v, it + 1, i, prev, values,
                    [lengths EXCEPT ![i + 1] = @ + 1])
       ELSE rleLoop(v, it + 1, i + 1, v[it],
                    Append(values, v[it]), Append(lengths, 1))

\* What reading past the end of an empty vector can produce.  rleC reads
\* x[0] whatever the length and starts its scan at begin()+1, one past
\* end(): the value read is whatever memory holds ("zero": a 0, "one":
\* anything else), or the process faults ("crash").
Garbage == {"crash", "zero", "one"}

\* the garbage argument of a call whose vectors are all non-empty: nothing
\* is read past an end, whatever memory holds
Unread == "crash"

rleFaults(v, garbage) == Len(v) = 0 /\ garbage = "crash"

rleC(v, garbage) ==
  IF Len(v) = 0
  THEN [lengths |-> <<1>>, values |-> <<IF garbage = "zero" THEN 0 ELSE 1>>]
  ELSE rleLoop(v, 2, 0, v[1], <<v[1]>>, <<1>>)

\* --------------------------------- representations.cpp: the bit encoders
\* clipping with a slip: >= where the code has >
clipping_geq(v) ==
  LET n == Len(v)
      x_mean == ddiv(accumulate(v, 1, D(0)), D(n))
  IN  [i \in 1..n |-> IF QLeq(x_mean, v[i]) THEN 1 ELSE 0]

clipping(v) ==
  LET n == Len(v)
      x_mean == ddiv(accumulate(v, 1, D(0)), D(n))
  IN  [i \in 1..n |-> IF QLess(x_mean, v[i]) THEN 1 ELSE 0]

\* IntegerVector repr(n-1); requires n >= 1
trending(v) ==
  LET n == Len(v)
  IN  [i \in 1..(n - 1) |->
         IF QLess(dsub(v[i], v[i + 1]), D(0)) THEN 1 ELSE 0]

\* What a call leaves behind: the returned numeric vector (repr), integer
\* vector (bits) or list (encode), how the call ended, and the vectors it
\* handed to rleC and to func on the way.
NoEncode == [lengths |-> <<>>, values |-> <<>>]

Result(repr, status, rleArgs, funcArgs) ==
  [repr |-> repr, bits |-> <<>>, encode |-> NoEncode, status |-> status,
   rleArgs |-> rleArgs, funcArgs |-> funcArgs]

\* ------------------------------- representations.cpp: run-length features
\* std::vector<int> v(k): k zero-initialised ints
Zeroed(k) == [i \in 1..k |-> 0]

\* first loop: the number of runs with value 0 / with another value
countZeros(values) == Cardinality({i \in 1..Len(values) : values[i] = 0})
countOnes(values) == Cardinality({i \in 1..Len(values) : values[i] # 0})

\* second loop: lengths[i] goes to zeros[z++] or ones[o++]
RECURSIVE fillLoop(_, _, _, _, _, _, _)
fillLoop(values, lengths, i, z, o, zeros, ones) ==
  IF i > Len(values) THEN [zeros |-> zeros, ones |-> ones, z |-> z, o |-> o]
  ELSE IF values[i] = 0
       THEN fillLoop(values, lengths, i + 1, z + 1, o,
                     [zeros EXCEPT ![z + 1] = lengths[i]], ones)
       ELSE fillLoop(values, lengths, i + 1, z, o + 1,
                     zeros, [ones EXCEPT ![o + 1] = lengths[i]])

\* std::max_element / std::accumulate over a vector of ints (run lengths:
\* small integers, which a double holds exactly)
RECURSIVE intMax(_, _, _)
intMax(v, i, best) ==
  IF i > Len(v) THEN best
  ELSE intMax(v, i + 1, IF best < v[i] THEN v[i] ELSE best)

RECURSIVE intSum(_, _, _)
intSum(v, i, total) ==
  IF i > Len(v) THEN total ELSE intSum(v, i + 1, total + v[i])

\* repr_feaclip with a slip: representation[5] reads the first run
repr_feaclip_lastIsFirst(v, garbage) ==
  LET y == clipping(v)
      encode == rleC(y, garbage)
      lengths == encode.lengths
      values == encode.values
      N == Len(values)
      f == fillLoop(values, lengths, 1, 0, 0,
                    Zeroed(countZeros(values)), Zeroed(countOnes(values)))
      r0 == IF Len(f.ones) = 0 THEN 0 ELSE intMax(f.ones, 2, f.ones[1])
      r1 == IF Len(f.ones) = 0 THEN 0 ELSE intSum(f.ones, 1, 0)
      r2 == IF Len(f.zeros) = 0 THEN 0 ELSE intMax(f.zeros, 2, f.zeros[1])
      r3 == N - 1
      r4 == IF values[1] = 0 THEN lengths[1] ELSE 0
      r6 == IF values[1] = 1 THEN lengths[1] ELSE 0
      r5 == IF values[1] = 0 THEN lengths[1] ELSE 0
      r7 == IF values[N] = 1 THEN lengths[N] ELSE 0
  IN  Result(AsNumeric(<<r0, r1, r2, r3, r4, r5, r6, r7>>),
             IF rleFaults(y, garbage) THEN "crash" ELSE "ok", <<y>>, <<>>)

\* requires Len(v) >= 1.  The result records the vectors handed to rleC.
repr_feaclip(v, garbage) ==
  LET y == clipping(v)
      encode == rleC(y, garbage)
      lengths == encode.lengths
      values == encode.values
      N == Len(values)
      f == fillLoop(values, lengths, 1, 0, 0,
                    Zeroed(countZeros(values)), Zeroed(countOnes(values)))
      r0 == IF Len(f.ones) = 0 THEN 0 ELSE intMax(f.ones, 2, f.ones[1])
      r1 == IF Len(f.ones) = 0 THEN 0 ELSE intSum(f.ones, 1, 0)
      r2 == IF Len(f.zeros) = 0 THEN 0 ELSE intMax(f.zeros, 2, f.zeros[1])
      r3 == N - 1
      r4 == IF values[1] = 0 THEN lengths[1] ELSE 0
      r6 == IF values[1] = 1 THEN lengths[1] ELSE 0
      r5 == IF values[N] = 0 THEN lengths[N] ELSE 0
      r7 == IF values[N] = 1 THEN lengths[N] ELSE 0
  IN  Result(AsNumeric(<<r0, r1, r2, r3, r4, r5, r6, r7>>),
             IF rleFaults(y, garbage) THEN "crash" ELSE "ok", <<y>>, <<>>)

\* one round of the loop over the pieces; o and z are the counters as the
\* previous piece left them, acc the result so far
RECURSIVE pieceLoop(_, _, _, _, _, _, _, _)
pieceLoop(sma_x, func, pieces, garbage, j, o, z, acc) ==
  IF j = pieces \/ acc.status # "ok" THEN acc
  ELSE
    LET n_piece == Len(sma_x) \div pieces
        x_ind == [i \in 1..n_piece |-> (i - 1) + (n_piece * j)]
        y == trending([i \in 1..n_piece |-> sma_x[x_ind[i] + 1]])
        encode == rleC(y, garbage)
        lengths == encode.lengths
        values == encode.values
        f == fillLoop(values, lengths, 1, 0, 0,
                      Zeroed(z + countZeros(values)),
                      Zeroed(o + countOnes(values)))
        r0 == IF Len(f.ones) = 0 THEN D(0)
              ELSE Apply(func, AsNumeric(f.ones), garbage)
        r1 == IF Len(f.zeros) = 0 THEN D(0)
              ELSE Apply(func, AsNumeric(f.zeros), garbage)
        called == (IF Len(f.ones) = 0 THEN <<>> ELSE <<AsNumeric(f.ones)>>)
                  \o (IF Len(f.zeros) = 0 THEN <<>>
                      ELSE <<AsNumeric(f.zeros)>>)
    IN  IF rleFaults(y, garbage)
        THEN [acc EXCEPT !.status = "crash", !.rleArgs = Append(@, y)]
        ELSE pieceLoop(sma_x, func, pieces, garbage, j + 1, f.o, f.z,
                       Result(acc.repr \o <<r0, r1>>, "ok",
                              Append(acc.rleArgs, y),
                              acc.funcArgs \o called))

\* the part of repr_featrend after the smoothing
featrend_pieces(sma_x, func, pieces, garbage) ==
  pieceLoop(sma_x, func, pieces, garbage, 0, 0, 0,
            Result(<<>>, "ok", <<>>, <<>>))

\* requires pieces >= 1, 1 <= order < Len(v), (Len(v) - order) >= pieces
repr_featrend(v, func, pieces, order, garbage) ==
  featrend_pieces(repr_sma(v, order), func, pieces, garbage)

\* ------------------------------------ representations.cpp: repr_paa
\* repr_paa with a slip: the shorter last block is dropped
repr_paa_dropsRest(v, q, func, garbage) ==
  LET n == Len(v)
      n_paa == n \div q
      block(i) == LET sub_x == [j \in 1..q |-> (i * q) + (j - 1)]
                  IN  [j \in 1..q |-> v[sub_x[j] + 1]]
      args == [i \in 1..n_paa |-> block(i - 1)]
  IN  Result([i \in 1..n_paa |-> Apply(func, args[i], garbage)], "ok",
             <<>>, args)

\* requires q >= 1.  The result records the vectors handed to func.
repr_paa(v, q, func, garbage) ==
  LET n == Len(v)
      remain == n % q
      remain_count == n - ((n \div q) * q)
      n_paa == IF remain # 0 THEN (n \div q) + 1 ELSE n \div q
      \* x[sub_x] for the 0-based block i
      block(i) == LET sub_x == [j \in 1..q |-> (i * q) + (j - 1)]
                  IN  [j \in 1..q |-> v[sub_x[j] + 1]]
      sub_rem == [j \in 1..remain_count |-> ((n_paa - 1) * q) + (j - 1)]
      rest == [j \in 1..remain_count |-> v[sub_rem[j] + 1]]
      args == IF remain = 0
              THEN [i \in 1..n_paa |-> block(i - 1)]
              ELSE [i \in 1..(n_paa - 1) |-> block(i - 1)] \o <<rest>>
  IN  Result([i \in 1..n_paa |-> Apply(func, args[i], garbage)], "ok",
             <<>>, args)

\* --------------------------- representations.cpp: repr_seas_profile
\* repr_seas_profile with a slip: ind[j] = j + i*freq_times, so that a
\* phase collects neighbouring samples
repr_seas_profile_contiguous(v, freq, func, garbage) ==
  IF freq < 0
  THEN Result(<<>>, "error", <<>>, <<>>)
  ELSE IF freq = 0
  THEN Result(<<>>, IF garbage = "crash" THEN "crash" ELSE "ok", <<>>, <<>>)
  ELSE
    LET n == Len(v)
        freq_times == n \div freq
        phase(i) == LET ind == [j \in 1..freq_times |->
                                  (j - 1) + (i * freq_times)]
                    IN  [j \in 1..freq_times |-> v[ind[j] + 1]]
        args == [i \in 1..freq |-> phase(i - 1)]
    IN  IF ApplyFaults(func, args[1], garbage)
        THEN Result(<<>>, "crash", <<>>, <<args[1]>>)
        ELSE Result([i \in 1..freq |-> Apply(func, args[i], garbage)], "ok",
                    <<>>, args)

\* No argument is checked.  freq < 0: NumericVector repr(freq) is refused
\* by the allocator.  freq = 0: n / freq divides by zero; the process
\* faults or goes on with some freq_times, and the loop over the phases is
\* empty either way.
repr_seas_profile(v, freq, func, garbage) ==
  IF freq < 0
  THEN Result(<<>>, "error", <<>>, <<>>)
  ELSE IF freq = 0
  THEN Result(<<>>, IF garbage = "crash" THEN "crash" ELSE "ok", <<>>, <<>>)
  ELSE
    LET n == Len(v)
        freq_times == n \div freq
        \* x[ind] for the 0-based phase i
        phase(i) == LET ind == [j \in 1..freq_times |-> ((j - 1) * freq) + i]
                    IN  [j \in 1..freq_times |-> v[ind[j] + 1]]
        args == [i \in 1..freq |-> phase(i - 1)]
    IN  IF ApplyFaults(func, args[1], garbage)
        THEN Result(<<>>, "crash", <<>>, <<args[1]>>)
        ELSE Result([i \in 1..freq |-> Apply(func, args[i], garbage)], "ok",
                    <<>>, args)

\* ---------------------------------------------------------- the machine
\* the vectors a caller can pass
Inputs == UNION {[1..n -> 0..MaxVal] : n \in 1..MaxLen}

NoCall == [op |-> "none", func |-> "none", pieces |-> 0, order |-> 0,
           q |-> 0, freq |-> 0]
NoRet == Result(<<>>, "none", <<>>, <<>>)

\* the vector as the NumericVector the functions receive
X == AsNumeric(x)

Init ==
  /\ pc = "ready"
  /\ prec \in {0, Precision}
  /\ x \in Inputs
  /\ call = NoCall
  /\ ret = NoRet

\* x is non-empty in every call below
Call_rleC ==
  /\ pc = "ready"
  /\ call' = [NoCall EXCEPT !.op = "rleC"]
  /\ ret' = [Result(<<>>, IF rleFaults(X, Unread) THEN "crash" ELSE "ok",
                    <<>>, <<>>)
               EXCEPT !.encode = rleC(X, Unread)]
  /\ pc' = "done"
  /\ UNCHANGED <<prec, x>>

Call_repr_sma ==
  /\ pc = "ready"
  /\ \E order \in 1..MaxOrder :
       /\ order < Len(x)
       /\ call' = [NoCall EXCEPT !.op = "repr_sma", !.order = order]
       /\ ret' = Result(repr_sma(X, order), "ok", <<>>, <<>>)
  /\ pc' = "done"
  /\ UNCHANGED <<prec, x>>

Call_clipping ==
  /\ pc = "ready"
  /\ call' = [NoCall EXCEPT !.op = "clipping"]
  /\ ret' = [Result(<<>>, "ok", <<>>, <<>>) EXCEPT !.bits = clipping(X)]
  /\ pc' = "done"
  /\ UNCHANGED <<prec, x>>

Call_trending ==
  /\ pc = "ready"
  /\ call' = [NoCall EXCEPT !.op = "trending"]
  /\ ret' = [Result(<<>>, "ok", <<>>, <<>>) EXCEPT !.bits = trending(X)]
  /\ pc' = "done"
  /\ UNCHANGED <<prec, x>>

Call_repr_feaclip ==
  /\ pc = "ready"
  /\ call' = [NoCall EXCEPT !.op = "repr_feaclip"]
  /\ ret' = repr_feaclip(X, Unread)
  /\ pc' = "done"
  /\ UNCHANGED <<prec, x>>

\* the documented domain: pieces >= 1, 1 <= order < n, floor(m/pieces) >= 1.
\* With floor(m/pieces) >= 2 every trend encoding is non-empty.
Call_repr_featrend ==
  /\ pc = "ready"
  /\ \E func \in Funcs, pieces \in 1..MaxPieces, order \in 1..MaxOrder,
        garbage \in Garbage :
       /\ order < Len(x)
       /\ (Len(x) - order) \div pieces >= 1
       /\ (Len(x) - order) \div pieces >= 2 => garbage = Unread
       /\ call' = [NoCall EXCEPT !.op = "repr_featrend", !.func = func,
                                 !.pieces = pieces, !.order = order]
       /\ ret' = repr_featrend(X, func, pieces, order, garbage)
  /\ pc' = "done"
  /\ UNCHANGED <<prec, x>>

Call_repr_paa ==
  /\ pc = "ready"
  /\ \E func \in Funcs, q \in 1..MaxQ :
       /\ call' = [NoCall EXCEPT !.op = "repr_paa", !.func = func, !.q = q]
       /\ ret' = repr_paa(X, q, func, Unread)
  /\ pc' = "done"
  /\ UNCHANGED <<prec, x>>

\* any freq, the invalid ones included: the code has no check to stop
\* them.  With 1 <= freq <= n every phase is non-empty.
Call_repr_seas_profile ==
  /\ pc = "ready"
  /\ \E func \in Funcs, freq \in (-1)..MaxFreq, garbage \in Garbage :
       /\ (1 <= freq /\ freq <= Len(x)) => garbage = Unread
       /\ call' = [NoCall EXCEPT !.op = "repr_seas_profile", !.func = func,
                                 !.freq = freq]
       /\ ret' = repr_seas_profile(X, freq, func, garbage)
  /\ pc' = "done"
  /\ UNCHANGED <<prec, x>>

Next ==
  \/ Call_rleC
  \/ Call_repr_sma
  \/ Call_clipping
  \/ Call_trending
  \/ Call_repr_feaclip
  \/ Call_repr_featrend
  \/ Call_repr_paa
  \/ Call_repr_seas_profile

Spec == Init /\ [][Next]_vars

\* one specification per exported function: the inputs, then that call
SpecRle == Init /\ [][Call_rleC]_vars
SpecFeaclip == Init /\ [][Call_repr_feaclip]_vars
SpecPaa == Init /\ [][Call_repr_paa]_vars
SpecSeas == Init /\ [][Call_repr_seas_profile]_vars

\* ------------------------------------------------ vocabulary of the claims
Called(op) == pc = "done" /\ call.op = op

RECURSIVE SumSeq(_)
SumSeq(v) == IF v = <<>> THEN 0 ELSE v[1] + SumSeq(Tail(v))

MaxOrZero(v) ==
  IF v = <<>> THEN 0
  ELSE CHOOSE m \in {v[i] : i \in 1..Len(v)} : \A i \in 1..Len(v) : v[i] <= m

\* each values[k] repeated lengths[k] times, concatenated in order
RECURSIVE Expand(_, _)
Expand(values, lengths) ==
  IF values = <<>> THEN <<>>
  ELSE [i \in 1..lengths[1] |-> values[1]]
         \o Expand(Tail(values), Tail(lengths))

\* the maximal runs of b from position i on, as (value, length) records
RECURSIVE Runs(_, _)
Runs(b, i) ==
  IF i > Len(b) THEN <<>>
  ELSE LET e == CHOOSE k \in i..Len(b) :
                  /\ \A m \in i..k : b[m] = b[i]
                  /\ k = Len(b) \/ b[k + 1] # b[i]
       IN  <<[value |-> b[i], length |-> e - i + 1]>> \o Runs(b, e + 1)

\* the lengths of the runs of b with the given value, in order
RunLengths(b, value) ==
  LET sel == SelectSeq(Runs(b, 1), LAMBDA r : r.value = value)
  IN  [k \in 1..Len(sel) |-> sel[k].length]

\* the sum of a vector of samples, and the window mean, as exact fractions
RECURSIVE ExactSum(_)
ExactSum(v) == IF v = <<>> THEN D(0) ELSE QAdd(v[1], ExactSum(Tail(v)))

ExactMean(v) == QDiv(ExactSum(v), D(Len(v)))

\* ------------------------------------------------------------------- C1
\* C1: for a non-empty x, rleC returns parallel lists values and lengths
\* with every length >= 1, whose expansion (values[k] repeated lengths[k]
\* times, in order) is x itself, so that the lengths sum to len(x), and
\* with no two consecutive values equal.
C1_RoundTrip ==
  Called("rleC") =>
    LET values == ret.encode.values
        lengths == ret.encode.lengths
    IN  /\ ret.status = "ok"
        /\ Len(values) = Len(lengths)
        /\ \A k \in 1..Len(lengths) : lengths[k] >= 1
        /\ Expand(values, lengths) = X
        /\ SumSeq(lengths) = Len(x)
        /\ \A k \in 1..(Len(values) - 1) : values[k] # values[k + 1]

\* a vector with a run of two or more followed by another run was encoded
C1_Witness ==
  /\ Called("rleC")
  /\ Len(ret.encode.values) >= 2
  /\ ret.encode.lengths[1] >= 2

\* ------------------------------------------------------------------- C2
\* C2: for 1 <= p < n, in exact arithmetic, repr_sma(x, p) has n - p
\* elements and element i is the directly recomputed window mean
\* (x[i] + ... + x[i+p-1]) / p; for p = 1 the elements are x[i] themselves.
C2_WindowMean ==
  (Called("repr_sma") /\ prec = 0) =>
    LET p == call.order
    IN  /\ Len(ret.repr) = Len(x) - p
        /\ \A k \in 1..Len(ret.repr) :
             ret.repr[k] = ExactMean(SubSeq(X, k, k + p - 1))

\* ------------------------------------------------------------------- C3
\* the smoothed vector of the recorded repr_featrend call, its block size,
\* and the trend encoding of its 0-based piece j
Smoothed == repr_sma(X, call.order)
BlockSize == Len(Smoothed) \div call.pieces
PieceTrend(j) == trending(SubSeq(Smoothed, j * BlockSize + 1,
                                 j * BlockSize + BlockSize))
AggOrZero(func, lens) ==
  IF lens = <<>> THEN D(0) ELSE Apply(func, AsNumeric(lens), Unread)

\* C3: in repr_featrend, for every piece j and any aggregation function
\* (min, mean and median included), output[2j] = agg(ones-list_j) and
\* output[2j+1] = agg(zeros-list_j), the lists holding exactly the lengths
\* of the 1-runs / 0-runs of the trend encoding of piece j alone (nothing
\* from other pieces, no padding), and the output being 0 exactly when the
\* list is empty.  Stated for the calls whose pieces have two or more
\* elements, where every trend encoding is non-empty.
C3_PieceAggregates ==
  (Called("repr_featrend") /\ BlockSize >= 2) =>
    /\ ret.status = "ok"
    /\ Len(ret.repr) = 2 * call.pieces
    /\ \A j \in 0..(call.pieces - 1) :
         LET ones == RunLengths(PieceTrend(j), 1)
             zeros == RunLengths(PieceTrend(j), 0)
         IN  /\ ret.repr[2 * j + 1] = AggOrZero(call.func, ones)
             /\ ret.repr[2 * j + 2] = AggOrZero(call.func, zeros)
             /\ (ret.repr[2 * j + 1] = D(0)) <=> (ones = <<>>)
             /\ (ret.repr[2 * j + 2] = D(0)) <=> (zeros = <<>>)

\* ------------------------------------------------------------------- C4
RECURSIVE Concat(_)
Concat(vs) == IF vs = <<>> THEN <<>> ELSE vs[1] \o Concat(Tail(vs))

\* C4: for n >= 1, q >= 1 and every func, repr_paa returns ceil(n/q)
\* values in block order: output[i] = func(x[i*q .. i*q+q-1]) for each
\* i < floor(n/q) and, when q does not divide n, a last output that is func
\* of the n mod q trailing elements; every element of x is in exactly one
\* block; for q = 1 the output is x itself.
C4_Blocks ==
  Called("repr_paa") =>
    LET n == Len(x)
        q == call.q
        full == n \div q
    IN  /\ ret.status = "ok"
        /\ Len(ret.repr) = (n + q - 1) \div q
        /\ \A i \in 0..(full - 1) :
             ret.repr[i + 1] =
               Apply(call.func, SubSeq(X, i * q + 1, i * q + q), Unread)
        /\ n % q # 0 =>
             ret.repr[full + 1] =
               Apply(call.func, SubSeq(X, full * q + 1, n), Unread)
        /\ Concat(ret.funcArgs) = X
        /\ q = 1 => ret.repr = X

\* two full blocks and a shorter last one were aggregated
C4_Witness ==
  /\ Called("repr_paa")
  /\ ret.status = "ok"
  /\ Len(x) % call.q # 0
  /\ Len(x) \div call.q >= 2
  /\ Len(ret.repr) = 3

\* ------------------------------------------------------------------- C5
\* x with the elements after position keep replaced by those of tail
WithTail(keep, tail) ==
  [k \in 1..Len(x) |-> IF k <= keep THEN x[k] ELSE tail[k]]

\* C5: for 1 <= freq <= n and cycles = floor(n/freq), repr_seas_profile
\* returns freq values, value i being func of exactly
\* x[i], x[i+freq], ..., x[i+(cycles-1)*freq] in that order; the elements
\* at index >= cycles*freq influence nothing; for freq = n the output is x.
C5_Phases ==
  (Called("repr_seas_profile") /\ 1 <= call.freq /\ call.freq <= Len(x)) =>
    LET n == Len(x)
        freq == call.freq
        cycles == n \div freq
        column(i) == [j \in 1..cycles |-> X[i + (j - 1) * freq]]
    IN  /\ ret.status = "ok"
        /\ Len(ret.repr) = freq
        /\ Len(ret.funcArgs) = freq
        /\ \A i \in 1..freq :
             /\ ret.funcArgs[i] = column(i)
             /\ ret.repr[i] = Apply(call.func, column(i), Unread)
        /\ \A tail \in [(cycles * freq + 1)..n -> 0..MaxVal] :
             repr_seas_profile(AsNumeric(WithTail(cycles * freq, tail)),
                               freq, call.func, Unread).repr = ret.repr
        /\ freq = n => ret.repr = X

\* two full cycles of two or more phases, and an incomplete third cycle
C5_Witness ==
  /\ Called("repr_seas_profile")
  /\ ret.status = "ok"
  /\ call.freq >= 2
  /\ Len(x) \div call.freq >= 2
  /\ Len(x) % call.freq # 0

\* ------------------------------------------------------------------- C6
\* C6: with b[i] = 1 iff x[i] > mean(x) and N the number of maximal runs
\* of b, repr_feaclip returns [max 1-run length (0 if none), sum of 1-run
\* lengths (0 if none), max 0-run length (0 if none), N - 1, first-run
\* length if its value is 0 else 0, last-run length if its value is 0 else
\* 0, first-run length if its value is 1 else 0, last-run length if its
\* value is 1 else 0]; with N = 1 first and last run are the same run.
C6_Features ==
  Called("repr_feaclip") =>
    LET mean == meanC(X)
        b == [i \in 1..Len(x) |-> IF QLess(mean, X[i]) THEN 1 ELSE 0]
        runs == Runs(b, 1)
        N == Len(runs)
        ones == RunLengths(b, 1)
        zeros == RunLengths(b, 0)
        first(value) == IF runs[1].value = value THEN runs[1].length ELSE 0
        last(value) == IF runs[N].value = value THEN runs[N].length ELSE 0
    IN  /\ ret.status = "ok"
        /\ ret.repr = AsNumeric(<<MaxOrZero(ones), SumSeq(ones),
                                  MaxOrZero(zeros), N - 1,
                                  first(0), last(0), first(1), last(1)>>)

\* a vector whose encoding has three or more runs, the first and the last
\* of different lengths, went through repr_feaclip
C6_Witness ==
  /\ Called("repr_feaclip")
  /\ QLeq(D(2), ret.repr[4])
  /\ QAdd(ret.repr[5], ret.repr[7]) # QAdd(ret.repr[6], ret.repr[8])

\* ------------------------------------------------------------------- C7
\* C7: repr_seas_profile called with freq <= 0 or freq > len(x) ends in
\* the error outcome: func is never invoked and no result vector, not even
\* a partial or a length-freq one, is returned.
C7_InvalidFreqFails ==
  (Called("repr_seas_profile") /\ (call.freq <= 0 \/ call.freq > Len(x))) =>
    /\ ret.status = "error"
    /\ ret.funcArgs = <<>>
    /\ ret.repr = <<>>

\* ------------------------------------------------------------------- C8
\* C8: in repr_featrend with block size bs = floor(m/pieces) >= 1 the
\* output has 2*pieces elements, piece j is built from exactly
\* s[j*bs .. j*bs+bs-1], no extra block is formed, and the elements
\* s[pieces*bs .. m-1] influence nothing: a call whose smoothed vector
\* agrees with s below index pieces*bs returns the same output.
C8_RemainderIgnored ==
  Called("repr_featrend") =>
    /\ ret.status = "ok"
    /\ Len(ret.repr) = 2 * call.pieces
    /\ Len(ret.rleArgs) = call.pieces
    /\ \A j \in 0..(call.pieces - 1) : ret.rleArgs[j + 1] = PieceTrend(j)
    /\ \A x2 \in Inputs :
         LET s2 == repr_sma(AsNumeric(x2), call.order)
         IN  (/\ Len(x2) = Len(x)
              /\ \A k \in 1..(call.pieces * BlockSize) : s2[k] = Smoothed[k])
             => \A garbage \in Garbage :
                  LET r2 == featrend_pieces(s2, call.func, call.pieces,
                                            garbage)
                  IN  r2.status = "ok" /\ r2.repr = ret.repr

\* ------------------------------------------------------------------- C9
\* C9: under the documented preconditions (repr_feaclip: len(x) >= 1;
\* repr_featrend: pieces >= 1, 1 <= order < len(x), floor(m/pieces) >= 1)
\* every vector the extractors hand to rleC is non-empty, so its read of
\* x[0] is in bounds; also when floor(m/pieces) is exactly 1.
C9_RleArgsNonEmpty ==
  (Called("repr_feaclip") \/ Called("repr_featrend")) =>
    /\ ret.status # "crash"
    /\ \A k \in 1..Len(ret.rleArgs) : Len(ret.rleArgs[k]) >= 1

\* ------------------------------------------------------------------ C10
\* the bit vector repr_feaclip handed to rleC
LevelBits == ret.rleArgs[1]
HasZero == \E i \in 1..Len(LevelBits) : LevelBits[i] = 0

\* C10: for every non-empty x, clipping(x) contains at least one 0; so in
\* repr_feaclip(x) element 3 (max 0-run length) is >= 1, element 2 (sum of
\* 1-run lengths) is at most len(x) - 1, and element 2 plus the total
\* length of the 0-runs is len(x).
C10_AlwaysAZero ==
  Called("repr_feaclip") =>
    /\ HasZero
    /\ QLeq(D(1), ret.repr[3])
    /\ QLeq(ret.repr[2], D(Len(x) - 1))
    /\ QAdd(ret.repr[2], D(SumSeq(RunLengths(LevelBits, 0)))) = D(Len(x))

\* C10, amended: clipping(x) has len(x) bits and contains a 0 exactly when
\* some x[i] is not above the mean as the code computes it, which is so
\* whenever that mean is the exact one; rounding can leave the computed
\* mean below every element, and then all bits are 1.  In repr_feaclip(x)
\* element 3 is >= 1 exactly when a 0 exists, element 2 is at most len(x),
\* and at most len(x) - 1 when a 0 exists, and element 2 plus the total
\* length of the 0-runs is len(x).
C10_ZeroUnlessRoundedAway ==
  Called("repr_feaclip") =>
    LET mean == meanC(X)
    IN  /\ Len(LevelBits) = Len(x)
        /\ \A i \in 1..Len(x) : LevelBits[i] \in {0, 1}
        /\ HasZero <=> \E i \in 1..Len(x) : QLeq(X[i], mean)
        /\ mean = ExactMean(X) => HasZero
        /\ HasZero <=> QLeq(D(1), ret.repr[3])
        /\ HasZero => QLeq(ret.repr[2], D(Len(x) - 1))
        /\ QLeq(ret.repr[2], D(Len(x)))
        /\ QAdd(ret.repr[2], D(SumSeq(RunLengths(LevelBits, 0)))) = D(Len(x))

\* rounded arithmetic computed the mean exactly, and the vector has
\* samples on both sides of it
C10_Witness ==
  /\ Called("repr_feaclip")
  /\ prec = Precision
  /\ meanC(X) = ExactMean(X)
  /\ HasZero
  /\ QLeq(D(1), ret.repr[2])

====
